---------------------------- MODULE Spec2Model ----------------------------
(***************************************************************************)
(* FIREBAY dashboard (firebay.py): the threshold-based risk evaluation.    *)
(*                                                                         *)
(* Units.  Temperatures (degrees C) and humidities (percent) are Python    *)
(* ints and are modelled as integers.  The indices NDVI, NDMI and MIRBI    *)
(* are Python floats with two decimals; the integer n stands for the IEEE  *)
(* double nearest to n/100 (0.45 is 45, the margin 0.15 is 15).  Two such  *)
(* doubles compare as their integers do.  A float sum T + 0.15 is not      *)
(* always the double nearest to the decimal sum: RoundsUp15 and RoundsUp10 *)
(* list the thresholds for which the computed sum lies above it, so that   *)
(* a reading equal to the decimal sum still compares as smaller.           *)
(***************************************************************************)
EXTENDS Integers, Sequences, FiniteSets

VARIABLES
    umbral_ndvi, umbral_ndmi, umbral_mirbi,      \* sidebar sliders
    umbral_temperatura, umbral_humedad,
    riesgo_calculado, nivel_riesgo,              \* results of the last script run
    alertas_activas, alertas_detalle,
    cambios,                                     \* widget interactions so far
    args, puntos, estado                         \* one call of calcular_nivel_riesgo

vars == <<umbral_ndvi, umbral_ndmi, umbral_mirbi, umbral_temperatura,
          umbral_humedad, riesgo_calculado, nivel_riesgo, alertas_activas,
          alertas_detalle, cambios, args, puntos, estado>>

panel == <<umbral_ndvi, umbral_ndmi, umbral_mirbi, umbral_temperatura,
           umbral_humedad, riesgo_calculado, nivel_riesgo, alertas_activas,
           alertas_detalle, cambios>>

llamada == <<args, puntos, estado>>

-----------------------------------------------------------------------------
(* Bounds of the exploration *)

MaxCambios == 3      \* widget interactions explored from the first run
Margen == 1          \* readings tried beyond the outer edges of the scoring bands

-----------------------------------------------------------------------------
(* IEEE double addition of a two-decimal threshold and a margin *)

\* thresholds t (hundredths, -100..100) with  t/100 + 0.15 > (t+15)/100  in doubles
RoundsUp15 ==
    {-96, -95, -94, -83, -82, -71, -70, -69, -61, -60, -59, -58, -57, -49,
     -48, -47, -35, -29, 14, 26, 27, 28, 54, 55, 56, 67, 68, 79, 80, 81}

\* thresholds t (hundredths, -100..100) with  t/100 + 0.1 > (t+10)/100  in doubles
RoundsUp10 ==
    {-44, -43, -42, -41, -35, -30, -29, -24, -21, -18, -15, -12, -11, -9,
     -8, -6, -4, -1, 2, 5, 11, 14, 19, 20, 31, 32, 33, 34}

\* "<=" for "<"
LtPlus15NoEstricto(valor, umbral) ==
    valor <= umbral + 15

\* valor < umbral + 0.15
LtPlus15(valor, umbral) ==
    \/ valor < umbral + 15
    \/ valor = umbral + 15 /\ umbral \in RoundsUp15

\* valor < umbral + 0.1
LtPlus10(valor, umbral) ==
    \/ valor < umbral + 10
    \/ valor = umbral + 10 /\ umbral \in RoundsUp10

Min(a, b) == IF a < b THEN a ELSE b

-----------------------------------------------------------------------------
(* calcular_nivel_riesgo, one block per metric *)

\* the band test turned around
PuntosTemperaturaBandaInvertida(temp, temp_threshold) ==
    IF temp > temp_threshold THEN 25
    ELSE IF temp < temp_threshold - 5 THEN 15
    ELSE 0

\* a breach scored like the margin band
PuntosTemperaturaPlana(temp, temp_threshold) ==
    IF temp > temp_threshold THEN 15
    ELSE IF temp > temp_threshold - 5 THEN 15
    ELSE 0

PuntosTemperatura(temp, temp_threshold) ==
    IF temp > temp_threshold THEN 25
    ELSE IF temp > temp_threshold - 5 THEN 15
    ELSE 0

\* "-=" for "+=" in the band
PuntosHumedadResta(humedad, hum_threshold) ==
    IF humedad < hum_threshold THEN 25
    ELSE IF humedad < hum_threshold + 10 THEN 0 - 15
    ELSE 0

PuntosHumedad(humedad, hum_threshold) ==
    IF humedad < hum_threshold THEN 25
    ELSE IF humedad < hum_threshold + 10 THEN 15
    ELSE 0

PuntosNdvi(ndvi, ndvi_threshold) ==
    IF ndvi < ndvi_threshold THEN 25
    ELSE IF LtPlus15(ndvi, ndvi_threshold) THEN 15
    ELSE 0

\* the two increments exchanged
PuntosNdmiCambiados(ndmi, ndmi_threshold) ==
    IF ndmi < ndmi_threshold THEN 15
    ELSE IF LtPlus10(ndmi, ndmi_threshold) THEN 25
    ELSE 0

PuntosNdmi(ndmi, ndmi_threshold) ==
    IF ndmi < ndmi_threshold THEN 25
    ELSE IF LtPlus10(ndmi, ndmi_threshold) THEN 15
    ELSE 0

calcular_nivel_riesgo(temp, humedad, ndvi, ndmi, temp_threshold, hum_threshold, ndvi_threshold, ndmi_threshold) ==
    LET p1 == PuntosTemperatura(temp, temp_threshold)
        p2 == p1 + PuntosHumedad(humedad, hum_threshold)
        p3 == p2 + PuntosNdvi(ndvi, ndvi_threshold)
        p4 == p3 + PuntosNdmi(ndmi, ndmi_threshold)
    IN  Min(p4, 100)

\* the humidity validated as a percentage before scoring
SalidaConValidacion(temp, humedad, ndvi, ndmi, temp_threshold, hum_threshold, ndvi_threshold, ndmi_threshold) ==
    IF humedad < 0 \/ humedad > 100 THEN "error" ELSE "retorno"

\* how a call ends: the body has no raise, no assert and no validation
Salida(temp, humedad, ndvi, ndmi, temp_threshold, hum_threshold, ndvi_threshold, ndmi_threshold) ==
    "retorno"

-----------------------------------------------------------------------------
(* The script below the sidebar: readings, score, label, alerts *)

temp_actual == 32
humedad_actual == 28
ndvi_actual == 45
ndmi_actual == 15
mirbi_actual == 38

\* value sets and defaults of the five st.slider calls
SliderNdvi == {5 * k : k \in 0..20}
SliderNdmi == {5 * k - 100 : k \in 0..40}
SliderMirbi == {5 * k : k \in 0..20}
SliderTemperatura == 25..45
SliderHumedad == {5 * k : k \in 2..10}

DefaultNdvi == 30
DefaultNdmi == 10
DefaultMirbi == 30
DefaultTemperatura == 35
DefaultHumedad == 25

RiesgoCalculado(tT, tH, tN, tM) ==
    calcular_nivel_riesgo(temp_actual, humedad_actual, ndvi_actual, ndmi_actual,
                          tT, tH, tN, tM)

\* ">" for ">="
NivelRiesgoEstricto(riesgo) ==
    IF riesgo > 75 THEN "CRITICO"
    ELSE IF riesgo > 50 THEN "ALTO"
    ELSE IF riesgo > 25 THEN "MEDIO"
    ELSE "BAJO"

NivelRiesgo(riesgo) ==
    IF riesgo >= 75 THEN "CRITICO"
    ELSE IF riesgo >= 50 THEN "ALTO"
    ELSE IF riesgo >= 25 THEN "MEDIO"
    ELSE "BAJO"

\* alertas_activas = 0, then one "+= 1" per exceeded threshold
AlertasActivas(tT, tH, tN, tM, tB) ==
    LET a0 == 0
        a1 == IF temp_actual > tT THEN a0 + 1 ELSE a0
        a2 == IF humedad_actual < tH THEN a1 + 1 ELSE a1
        a3 == IF ndvi_actual < tN THEN a2 + 1 ELSE a2
        a4 == IF ndmi_actual < tM THEN a3 + 1 ELSE a3
        a5 == IF mirbi_actual > tB THEN a4 + 1 ELSE a4
    IN  a5

\* the temperature alert raised from the margin band on
AlertasDetalleConBanda(tT, tH, tN, tM, tB) ==
    LET d0 == << >>
        d1 == IF temp_actual > tT - 5
              THEN Append(d0, <<"Temperatura", temp_actual, tT>>) ELSE d0
        d2 == IF humedad_actual < tH
              THEN Append(d1, <<"Humedad", humedad_actual, tH>>) ELSE d1
        d3 == IF ndvi_actual < tN
              THEN Append(d2, <<"NDVI", ndvi_actual, tN>>) ELSE d2
        d4 == IF ndmi_actual < tM
              THEN Append(d3, <<"NDMI", ndmi_actual, tM>>) ELSE d3
        d5 == IF mirbi_actual > tB
              THEN Append(d4, <<"MIRBI", mirbi_actual, tB>>) ELSE d4
    IN  d5

\* alertas_detalle = [], then one append per exceeded threshold; an entry is
\* <<metric, reading, threshold>>, the three parts of the formatted text
AlertasDetalle(tT, tH, tN, tM, tB) ==
    LET d0 == << >>
        d1 == IF temp_actual > tT
              THEN Append(d0, <<"Temperatura", temp_actual, tT>>) ELSE d0
        d2 == IF humedad_actual < tH
              THEN Append(d1, <<"Humedad", humedad_actual, tH>>) ELSE d1
        d3 == IF ndvi_actual < tN
              THEN Append(d2, <<"NDVI", ndvi_actual, tN>>) ELSE d2
        d4 == IF ndmi_actual < tM
              THEN Append(d3, <<"NDMI", ndmi_actual, tM>>) ELSE d3
        d5 == IF mirbi_actual > tB
              THEN Append(d4, <<"MIRBI", mirbi_actual, tB>>) ELSE d4
    IN  d5

\* the alert counter and list kept from the previous run instead of reset
EjecutarSinReinicio(tN, tM, tB, tT, tH) ==
    /\ umbral_ndvi' = tN
    /\ umbral_ndmi' = tM
    /\ umbral_mirbi' = tB
    /\ umbral_temperatura' = tT
    /\ umbral_humedad' = tH
    /\ riesgo_calculado' = RiesgoCalculado(tT, tH, tN, tM)
    /\ nivel_riesgo' = NivelRiesgo(RiesgoCalculado(tT, tH, tN, tM))
    /\ alertas_activas' = alertas_activas + AlertasActivas(tT, tH, tN, tM, tB)
    /\ alertas_detalle' = alertas_detalle \o AlertasDetalle(tT, tH, tN, tM, tB)

\* the MIRBI comparison scored as a fifth metric
EjecutarConMirbi(tN, tM, tB, tT, tH) ==
    /\ umbral_ndvi' = tN
    /\ umbral_ndmi' = tM
    /\ umbral_mirbi' = tB
    /\ umbral_temperatura' = tT
    /\ umbral_humedad' = tH
    /\ riesgo_calculado' =
           Min(RiesgoCalculado(tT, tH, tN, tM)
               + (IF mirbi_actual > tB THEN 25 ELSE 0), 100)
    /\ nivel_riesgo' =
           NivelRiesgo(Min(RiesgoCalculado(tT, tH, tN, tM)
                           + (IF mirbi_actual > tB THEN 25 ELSE 0), 100))
    /\ alertas_activas' = AlertasActivas(tT, tH, tN, tM, tB)
    /\ alertas_detalle' = AlertasDetalle(tT, tH, tN, tM, tB)

\* one run of the script with the slider values it reads
Ejecutar(tN, tM, tB, tT, tH) ==
    /\ umbral_ndvi' = tN
    /\ umbral_ndmi' = tM
    /\ umbral_mirbi' = tB
    /\ umbral_temperatura' = tT
    /\ umbral_humedad' = tH
    /\ riesgo_calculado' = RiesgoCalculado(tT, tH, tN, tM)
    /\ nivel_riesgo' = NivelRiesgo(RiesgoCalculado(tT, tH, tN, tM))
    /\ alertas_activas' = AlertasActivas(tT, tH, tN, tM, tB)
    /\ alertas_detalle' = AlertasDetalle(tT, tH, tN, tM, tB)

-----------------------------------------------------------------------------
(* The dashboard: first run with the slider defaults, then one run per      *)
(* widget interaction                                                       *)

ArgsPanel ==
    [temp |-> temp_actual, humedad |-> humedad_actual, ndvi |-> ndvi_actual,
     ndmi |-> ndmi_actual, temp_threshold |-> DefaultTemperatura,
     hum_threshold |-> DefaultHumedad, ndvi_threshold |-> DefaultNdvi,
     ndmi_threshold |-> DefaultNdmi]

InitPanel ==
    /\ umbral_ndvi = DefaultNdvi
    /\ umbral_ndmi = DefaultNdmi
    /\ umbral_mirbi = DefaultMirbi
    /\ umbral_temperatura = DefaultTemperatura
    /\ umbral_humedad = DefaultHumedad
    /\ riesgo_calculado =
           RiesgoCalculado(DefaultTemperatura, DefaultHumedad, DefaultNdvi, DefaultNdmi)
    /\ nivel_riesgo =
           NivelRiesgo(RiesgoCalculado(DefaultTemperatura, DefaultHumedad,
                                       DefaultNdvi, DefaultNdmi))
    /\ alertas_activas =
           AlertasActivas(DefaultTemperatura, DefaultHumedad, DefaultNdvi,
                          DefaultNdmi, DefaultMirbi)
    /\ alertas_detalle =
           AlertasDetalle(DefaultTemperatura, DefaultHumedad, DefaultNdvi,
                          DefaultNdmi, DefaultMirbi)
    /\ cambios = 0

Init ==
    /\ InitPanel
    /\ args = ArgsPanel
    /\ puntos = 0
    /\ estado = "pendiente"

CambiarNdvi ==
    /\ cambios < MaxCambios
    /\ \E v \in SliderNdvi \ {umbral_ndvi} :
           Ejecutar(v, umbral_ndmi, umbral_mirbi, umbral_temperatura, umbral_humedad)
    /\ cambios' = cambios + 1
    /\ UNCHANGED llamada

CambiarNdmi ==
    /\ cambios < MaxCambios
    /\ \E v \in SliderNdmi \ {umbral_ndmi} :
           Ejecutar(umbral_ndvi, v, umbral_mirbi, umbral_temperatura, umbral_humedad)
    /\ cambios' = cambios + 1
    /\ UNCHANGED llamada

CambiarMirbi ==
    /\ cambios < MaxCambios
    /\ \E v \in SliderMirbi \ {umbral_mirbi} :
           Ejecutar(umbral_ndvi, umbral_ndmi, v, umbral_temperatura, umbral_humedad)
    /\ cambios' = cambios + 1
    /\ UNCHANGED llamada

CambiarTemperatura ==
    /\ cambios < MaxCambios
    /\ \E v \in SliderTemperatura \ {umbral_temperatura} :
           Ejecutar(umbral_ndvi, umbral_ndmi, umbral_mirbi, v, umbral_humedad)
    /\ cambios' = cambios + 1
    /\ UNCHANGED llamada

CambiarHumedad ==
    /\ cambios < MaxCambios
    /\ \E v \in SliderHumedad \ {umbral_humedad} :
           Ejecutar(umbral_ndvi, umbral_ndmi, umbral_mirbi, umbral_temperatura, v)
    /\ cambios' = cambios + 1
    /\ UNCHANGED llamada

\* a selectbox (map layer, image date) changes: the script runs again with
\* the sliders as they are
OtroWidget ==
    /\ cambios < MaxCambios
    /\ Ejecutar(umbral_ndvi, umbral_ndmi, umbral_mirbi, umbral_temperatura,
                umbral_humedad)
    /\ cambios' = cambios + 1
    /\ UNCHANGED llamada

Next ==
    \/ CambiarNdvi
    \/ CambiarNdmi
    \/ CambiarMirbi
    \/ CambiarTemperatura
    \/ CambiarHumedad
    \/ OtroWidget

Spec == Init /\ [][Next]_vars

-----------------------------------------------------------------------------
(* calcular_nivel_riesgo as a function of any readings and thresholds       *)

\* thresholds tried: a slider value and one outside the slider's range
UmbralesTemperatura == {DefaultTemperatura, 50}
UmbralesHumedad == {DefaultHumedad, 60}
\* index thresholds tried: one whose float sum with the margin is not above
\* the decimal sum and one whose float sum is
UmbralesNdvi == {DefaultNdvi, 55}
UmbralesNdmi == {DefaultNdmi, 20}

\* readings tried: across both bands of each threshold, and a humidity
\* outside the physical range
LecturasTemperatura ==
    (DefaultTemperatura - 5 - Margen)..(DefaultTemperatura + Margen)
LecturasHumedad ==
    {-50} \cup ((DefaultHumedad - Margen)..(DefaultHumedad + 10 + Margen))
LecturasNdvi == {t + d : t \in UmbralesNdvi, d \in {-1, 0, 14, 15, 16}}
LecturasNdmi == {t + d : t \in UmbralesNdmi, d \in {-1, 0, 9, 10, 12, 15}}

Argumentos ==
    [temp : LecturasTemperatura, humedad : LecturasHumedad,
     ndvi : LecturasNdvi, ndmi : LecturasNdmi,
     temp_threshold : UmbralesTemperatura, hum_threshold : UmbralesHumedad,
     ndvi_threshold : UmbralesNdvi, ndmi_threshold : UmbralesNdmi]

Puntos(a) ==
    calcular_nivel_riesgo(a.temp, a.humedad, a.ndvi, a.ndmi, a.temp_threshold,
                          a.hum_threshold, a.ndvi_threshold, a.ndmi_threshold)

InitFn ==
    /\ InitPanel
    /\ args \in Argumentos
    /\ puntos = 0
    /\ estado = "pendiente"

Llamar ==
    /\ estado = "pendiente"
    /\ puntos' = Puntos(args)
    /\ estado' = Salida(args.temp, args.humedad, args.ndvi, args.ndmi,
                        args.temp_threshold, args.hum_threshold,
                        args.ndvi_threshold, args.ndmi_threshold)
    /\ UNCHANGED <<args, panel>>

NextFn == Llamar

SpecFn == InitFn /\ [][NextFn]_vars

-----------------------------------------------------------------------------
(* The label chain of the script applied to any integer score               *)

InitNivel ==
    /\ umbral_ndvi = DefaultNdvi
    /\ umbral_ndmi = DefaultNdmi
    /\ umbral_mirbi = DefaultMirbi
    /\ umbral_temperatura = DefaultTemperatura
    /\ umbral_humedad = DefaultHumedad
    /\ riesgo_calculado \in 0..100
    /\ nivel_riesgo = "sin_asignar"
    /\ alertas_activas = 0
    /\ alertas_detalle = << >>
    /\ cambios = 0
    /\ args = ArgsPanel
    /\ puntos = 0
    /\ estado = "pendiente"

Clasificar ==
    /\ nivel_riesgo = "sin_asignar"
    /\ nivel_riesgo' = NivelRiesgo(riesgo_calculado)
    /\ UNCHANGED <<umbral_ndvi, umbral_ndmi, umbral_mirbi, umbral_temperatura,
                   umbral_humedad, riesgo_calculado, alertas_activas,
                   alertas_detalle, cambios, llamada>>

NextNivel == Clasificar

SpecNivel == InitNivel /\ [][NextNivel]_vars

-----------------------------------------------------------------------------
(* The scoring rules as the specification words them, in decimal arithmetic *)

ReglaTemperatura(V, T) ==
    IF V > T THEN 25 ELSE IF T - 5 < V /\ V <= T THEN 15 ELSE 0

ReglaHumedad(V, T) ==
    IF V < T THEN 25 ELSE IF T <= V /\ V < T + 10 THEN 15 ELSE 0

\* NDVI and NDMI: margin 0.15
ReglaIndice(V, T) ==
    IF V < T THEN 25 ELSE IF T <= V /\ V < T + 15 THEN 15 ELSE 0

Retornado == estado = "retorno"

-----------------------------------------------------------------------------
(* C1: for every combination of the four readings and the four thresholds, *)
(* calcular_nivel_riesgo returns an integer score between 0 and 100.       *)
C1_ScoreInRange ==
    Retornado => puntos \in 0..100

\* a call with an out-of-range humidity that returned the full 100
C1_Witness ==
    /\ Retornado
    /\ puntos = 100
    /\ args.humedad = -50

(* C2: the score is min(100, sum of the four contributions), where the     *)
(* temperature contribution is 25 if V > T, 15 if T - 5 < V <= T, else 0;  *)
(* the humidity contribution 25 if V < T, 15 if T <= V < T + 10, else 0;   *)
(* the NDVI contribution 25 if V < T, 15 if T <= V < T + 0.15, else 0.     *)
(* (The NDMI contribution is taken as the code computes it.)               *)
C2_ScoreIsSumOfRules ==
    Retornado =>
        puntos = Min(100, ReglaTemperatura(args.temp, args.temp_threshold)
                          + ReglaHumedad(args.humedad, args.hum_threshold)
                          + ReglaIndice(args.ndvi, args.ndvi_threshold)
                          + PuntosNdmi(args.ndmi, args.ndmi_threshold))

(* C3: the NDMI contribution is 25 if V < T, 15 if T <= V < T + 0.15 and   *)
(* 0 if V >= T + 0.15: every reading in [T, T + 0.15) adds 15 points.      *)
(* (The other three contributions are taken as the code computes them.)    *)
C3_NdmiMargin15 ==
    Retornado =>
        puntos = Min(100, PuntosTemperatura(args.temp, args.temp_threshold)
                          + PuntosHumedad(args.humedad, args.hum_threshold)
                          + PuntosNdvi(args.ndvi, args.ndvi_threshold)
                          + ReglaIndice(args.ndmi, args.ndmi_threshold))

(* C4: the label is a total function of the score with exactly one label   *)
(* per score in 0..100: >= 75 CRITICO, 50..74 ALTO, 25..49 MEDIO, < 25     *)
(* BAJO; 75 -> CRITICO, 74 -> ALTO, 50 -> ALTO, 49 -> MEDIO, 25 -> MEDIO,  *)
(* 24 -> BAJO.                                                             *)
C4_LabelOfScore ==
    nivel_riesgo # "sin_asignar" =>
        /\ nivel_riesgo \in {"CRITICO", "ALTO", "MEDIO", "BAJO"}
        /\ nivel_riesgo = "CRITICO" <=> riesgo_calculado >= 75
        /\ nivel_riesgo = "ALTO" <=> (50 <= riesgo_calculado /\ riesgo_calculado < 75)
        /\ nivel_riesgo = "MEDIO" <=> (25 <= riesgo_calculado /\ riesgo_calculado < 50)
        /\ nivel_riesgo = "BAJO" <=> riesgo_calculado < 25
        /\ riesgo_calculado \in {75, 74, 50, 49, 25, 24} =>
               nivel_riesgo =
                   CASE riesgo_calculado = 75 -> "CRITICO"
                     [] riesgo_calculado = 74 -> "ALTO"
                     [] riesgo_calculado = 50 -> "ALTO"
                     [] riesgo_calculado = 49 -> "MEDIO"
                     [] riesgo_calculado = 25 -> "MEDIO"
                     [] riesgo_calculado = 24 -> "BAJO"

\* the boundary score 75 has been labelled
C4_Witness ==
    /\ riesgo_calculado = 75
    /\ nivel_riesgo = "CRITICO"

(* C5: with the thresholds and the other readings fixed, the score never   *)
(* decreases when the temperature rises, and never increases when the      *)
(* humidity, the NDVI or the NDMI rises.                                   *)
C5_Monotone ==
    Retornado =>
        /\ \A v \in LecturasTemperatura :
               args.temp <= v => puntos <= Puntos([args EXCEPT !.temp = v])
        /\ \A v \in LecturasHumedad :
               args.humedad <= v => puntos >= Puntos([args EXCEPT !.humedad = v])
        /\ \A v \in LecturasNdvi :
               args.ndvi <= v => puntos >= Puntos([args EXCEPT !.ndvi = v])
        /\ \A v \in LecturasNdmi :
               args.ndmi <= v => puntos >= Puntos([args EXCEPT !.ndmi = v])

\* a returned call whose score strictly changes with each of the four readings
C5_Witness ==
    /\ Retornado
    /\ \E v \in LecturasTemperatura :
           args.temp < v /\ puntos < Puntos([args EXCEPT !.temp = v])
    /\ \E v \in LecturasHumedad :
           args.humedad < v /\ puntos > Puntos([args EXCEPT !.humedad = v])
    /\ \E v \in LecturasNdvi :
           args.ndvi < v /\ puntos > Puntos([args EXCEPT !.ndvi = v])
    /\ \E v \in LecturasNdmi :
           args.ndmi < v /\ puntos > Puntos([args EXCEPT !.ndmi = v])

\* the metric has an entry in the alert list
Alertada(m) == \E i \in DOMAIN alertas_detalle : alertas_detalle[i][1] = m

\* the metrics whose strict primary comparison holds for the current sliders
Excedidas ==
    {m \in {"Temperatura", "Humedad", "NDVI", "NDMI", "MIRBI"} :
        \/ m = "Temperatura" /\ temp_actual > umbral_temperatura
        \/ m = "Humedad" /\ humedad_actual < umbral_humedad
        \/ m = "NDVI" /\ ndvi_actual < umbral_ndvi
        \/ m = "NDMI" /\ ndmi_actual < umbral_ndmi
        \/ m = "MIRBI" /\ mirbi_actual > umbral_mirbi}

(* C6: a metric's alert is counted in alertas_activas and listed in        *)
(* alertas_detalle exactly when its strict primary comparison holds, never *)
(* because of the margin band; a reading equal to its threshold raises no  *)
(* alert, and a temperature equal to its threshold still adds 15 points.   *)
C6_BreachFlagsStrict ==
    /\ \A m \in {"Temperatura", "Humedad", "NDVI", "NDMI", "MIRBI"} :
           Alertada(m) <=> m \in Excedidas
    /\ alertas_activas = Cardinality(Excedidas)
    /\ Len(alertas_detalle) = alertas_activas
    /\ umbral_temperatura = temp_actual => ~Alertada("Temperatura")
    /\ umbral_ndvi = ndvi_actual => ~Alertada("NDVI")
    /\ umbral_ndmi = ndmi_actual => ~Alertada("NDMI")
    /\ umbral_temperatura = temp_actual =>
           riesgo_calculado =
               Min(100, 15 + PuntosHumedad(humedad_actual, umbral_humedad)
                           + PuntosNdvi(ndvi_actual, umbral_ndvi)
                           + PuntosNdmi(ndmi_actual, umbral_ndmi))

\* the temperature slider was moved onto the reading: no alert, 15 points
C6_Witness ==
    /\ cambios > 0
    /\ umbral_temperatura = temp_actual
    /\ ~Alertada("Temperatura")
    /\ riesgo_calculado = 15 + 15 + 0 + 15

(* C7: after any sequence of widget interactions the score, the label, the *)
(* alert count and the alert list are those of the current slider values   *)
(* and the readings alone, whatever the earlier slider values and results. *)
C7_DeterminedByCurrentInputs ==
    /\ riesgo_calculado =
           RiesgoCalculado(umbral_temperatura, umbral_humedad, umbral_ndvi,
                           umbral_ndmi)
    /\ nivel_riesgo = NivelRiesgo(riesgo_calculado)
    /\ alertas_activas = Cardinality(Excedidas)
    /\ Len(alertas_detalle) = Cardinality(Excedidas)
    /\ \A i \in DOMAIN alertas_detalle :
           /\ alertas_detalle[i][1] \in Excedidas
           /\ alertas_detalle[i][3] =
                  CASE alertas_detalle[i][1] = "Temperatura" -> umbral_temperatura
                    [] alertas_detalle[i][1] = "Humedad" -> umbral_humedad
                    [] alertas_detalle[i][1] = "NDVI" -> umbral_ndvi
                    [] alertas_detalle[i][1] = "NDMI" -> umbral_ndmi
                    [] alertas_detalle[i][1] = "MIRBI" -> umbral_mirbi

\* two interactions that end at the slider values of the first run, with
\* the assessment of the first run
C7_Witness ==
    /\ cambios = 2
    /\ umbral_ndvi = DefaultNdvi
    /\ umbral_ndmi = DefaultNdmi
    /\ umbral_mirbi = DefaultMirbi
    /\ umbral_temperatura = DefaultTemperatura
    /\ umbral_humedad = DefaultHumedad
    /\ alertas_activas = 1

(* C8: with the readings 32, 28, 0.45, 0.15 and the thresholds 35, 25,     *)
(* 0.30, 0.10 none of the four metrics raises an alert, the contributions  *)
(* are 15, 15, 0 and 15, the score is 45 and the label is MEDIO.           *)
C8_DefaultScenario ==
    (/\ umbral_temperatura = 35
     /\ umbral_humedad = 25
     /\ umbral_ndvi = 30
     /\ umbral_ndmi = 10) =>
        /\ ~Alertada("Temperatura")
        /\ ~Alertada("Humedad")
        /\ ~Alertada("NDVI")
        /\ ~Alertada("NDMI")
        /\ PuntosTemperatura(temp_actual, umbral_temperatura) = 15
        /\ PuntosHumedad(humedad_actual, umbral_humedad) = 15
        /\ PuntosNdvi(ndvi_actual, umbral_ndvi) = 0
        /\ PuntosNdmi(ndmi_actual, umbral_ndmi) = 15
        /\ riesgo_calculado = 45
        /\ nivel_riesgo = "MEDIO"

\* a run with these four thresholds after the sliders were moved
C8_Witness ==
    /\ cambios > 0
    /\ umbral_temperatura = 35
    /\ umbral_humedad = 25
    /\ umbral_ndvi = 30
    /\ umbral_ndmi = 10
    /\ temp_actual = 32 /\ humedad_actual = 28
    /\ ndvi_actual = 45 /\ ndmi_actual = 15
    /\ riesgo_calculado = 45

\* all four readings strictly beyond their thresholds
TodasExcedidas(a) ==
    /\ a.temp > a.temp_threshold
    /\ a.humedad < a.hum_threshold
    /\ a.ndvi < a.ndvi_threshold
    /\ a.ndmi < a.ndmi_threshold

(* C9: when temperature, humidity, NDVI and NDMI each strictly breach      *)
(* their threshold, the score is exactly 100 and the label is CRITICO.     *)
C9_AllBreachedIsCritical ==
    (Retornado /\ TodasExcedidas(args)) =>
        /\ puntos = 100
        /\ NivelRiesgo(puntos) = "CRITICO"

C9_Witness ==
    /\ Retornado
    /\ TodasExcedidas(args)
    /\ args.humedad >= 0

\* a humidity that is no percentage, or a threshold outside its slider
FueraDeDominio(a) ==
    \/ a.humedad < 0
    \/ a.temp_threshold \notin SliderTemperatura
    \/ a.hum_threshold \notin SliderHumedad

(* C10: the evaluator has no error outcome: also for values outside the    *)
(* physical domain (a humidity of -50, a threshold outside its slider      *)
(* range) the call returns a score made by the same per-metric rules.      *)
C10_NoErrorOutcome ==
    (estado # "pendiente" /\ FueraDeDominio(args)) =>
        /\ estado = "retorno"
        /\ puntos = Min(100, ReglaTemperatura(args.temp, args.temp_threshold)
                             + ReglaHumedad(args.humedad, args.hum_threshold)
                             + PuntosNdvi(args.ndvi, args.ndvi_threshold)
                             + PuntosNdmi(args.ndmi, args.ndmi_threshold))

\* a call with humidity -50 and both thresholds outside their sliders returned
C10_Witness ==
    /\ estado = "retorno"
    /\ args.humedad = -50
    /\ args.temp_threshold = 50
    /\ args.hum_threshold = 60
    /\ puntos >= 25

\* the alert list without its MIRBI entry
SinMirbi(detalle) == SelectSeq(detalle, LAMBDA e : e[1] # "MIRBI")

\* a step that moves the MIRBI slider and no other slider
SoloCambiaMirbi ==
    /\ umbral_mirbi' # umbral_mirbi
    /\ umbral_ndvi' = umbral_ndvi
    /\ umbral_ndmi' = umbral_ndmi
    /\ umbral_temperatura' = umbral_temperatura
    /\ umbral_humedad' = umbral_humedad

(* C11: the MIRBI reading and threshold never influence the score or the   *)
(* label: a change of the MIRBI slider leaves riesgo_calculado and         *)
(* nivel_riesgo unchanged and changes the alert count by at most one, the  *)
(* alert list only in its MIRBI entry; the alert count stays within 0..5.  *)
C11_MirbiOnlyAlerts ==
    /\ [](alertas_activas \in 0..5)
    /\ [][SoloCambiaMirbi =>
            /\ riesgo_calculado' = riesgo_calculado
            /\ nivel_riesgo' = nivel_riesgo
            /\ alertas_activas' - alertas_activas \in {-1, 0, 1}
            /\ SinMirbi(alertas_detalle') = SinMirbi(alertas_detalle)]_vars

\* the MIRBI slider alone was raised above the reading: its alert is gone,
\* score and label are those of the first run
C11_Witness ==
    /\ cambios = 1
    /\ umbral_mirbi > mirbi_actual
    /\ umbral_ndvi = DefaultNdvi
    /\ umbral_ndmi = DefaultNdmi
    /\ umbral_temperatura = DefaultTemperatura
    /\ umbral_humedad = DefaultHumedad
    /\ alertas_activas = 0
    /\ riesgo_calculado = 45
    /\ nivel_riesgo = "MEDIO"

\* the scored metrics whose alert is in the alert list
AlertasPuntuadas ==
    {m \in {"Temperatura", "Humedad", "NDVI", "NDMI"} : Alertada(m)}

(* C12: after any sequence of slider changes, if k of the four scored      *)
(* metrics have their alert active the score is at least 25*k; so BAJO is  *)
(* shown only when none of the four alerts is active, and the label is     *)
(* CRITICO whenever at least three of them are active.                     *)
C12_AlertsBoundScore ==
    /\ riesgo_calculado >= 25 * Cardinality(AlertasPuntuadas)
    /\ nivel_riesgo = "BAJO" => AlertasPuntuadas = {}
    /\ Cardinality(AlertasPuntuadas) >= 3 => nivel_riesgo = "CRITICO"

\* three of the four scored alerts are active and the label is CRITICO
C12_Witness ==
    /\ Cardinality(AlertasPuntuadas) = 3
    /\ riesgo_calculado >= 75
    /\ nivel_riesgo = "CRITICO"

\* an active MIRBI alert gives the score no lower bound: a reachable state
\* with the MIRBI alert active, score 0 and label BAJO
MirbiSinCota ==
    /\ Alertada("MIRBI")
    /\ AlertasPuntuadas = {}
    /\ riesgo_calculado = 0
    /\ nivel_riesgo = "BAJO"

=============================================================================
